---- MODULE Spec2Model ----
(***************************************************************************)
(* Multi-agent debate (Snowflake Cortex / LangGraph): the DebateState, the *)
(* five node functions (Researcher, BullAgent, BearAgent, Moderator,      *)
(* Judge), the two compiled graphs (create_debate_graph and                *)
(* create_simple_debate_graph) and the loop that rebuilds final_state from *)
(* the streamed node outputs (run_debate, main.run).                       *)
(*                                                                         *)
(* One superstep of the graph = one action: the node bound to `node` is    *)
(* called on `state`, its returned partial update is merged by the channel *)
(* reducers, the streamed update is folded into final_state, and the edges *)
(* leaving the node choose the next node.                                  *)
(*                                                                         *)
(* An oracle response (the text returned by CortexLLM.complete) is         *)
(* identified by the ordinal of the call that produced it, so that every   *)
(* response is a distinct text.  `raised` records which category fetches   *)
(* of the Research Stage raised.                                           *)
(*                                                                         *)
(* The pure functions (create_initial_state and the three response         *)
(* parsers) are applied to bounded inputs under FnSpec: fn_in is the       *)
(* input, fn_out the value returned.  A text is a sequence of characters   *)
(* (ticker, question) or a sequence of lines (oracle response); numbers    *)
(* are counted in tenths, so 0.7 is 7 and 50.0 is 500.                     *)
(***************************************************************************)
EXTENDS Integers, Sequences, FiniteSets, TLC

VARIABLES graph, node, state, final_state, status, steps, llm_calls, turns,
          raised, fn_in, fn_out

vars == <<graph, node, state, final_state, status, steps, llm_calls, turns,
          raised, fn_in, fn_out>>

(***************************************************************************)
(* Bounds and program constants                                            *)
(***************************************************************************)
\* max_rounds given to create_initial_state ranges over 0..MaxRounds
MaxRounds == 3

\* default recursion_limit of a compiled LangGraph graph: graph.stream is
\* called without a config, so a run executes at most this many supersteps
RecursionLimit == 25

END == "__end__"

NoneVal == [kind |-> "None"]

\* the nine category fetches of Researcher.gather_research
Categories ==
  {"metrics", "earnings_history", "technical_indicators", "sentiment",
   "insider_activity", "institutional_holdings", "analyst_reports",
   "earnings_transcripts", "sec_filings"}

(***************************************************************************)
(* graph/state.py                                                          *)
(***************************************************************************)
Argument(agent, content) == [agent |-> agent, content |-> content]

add_arguments_overwrite(left, right) == right

\* reducer of the `arguments` channel
add_arguments(left, right) == left \o right

\* a str argument; None is NoneVal
Str(chars) == [kind |-> "str", chars |-> chars]

\* str.upper(), character by character
upper_char(c) ==
  CASE c = "n" -> "N"
    [] c = "v" -> "V"
    [] c = "q" -> "Q"
    [] OTHER   -> c

upper(chars) == [i \in 1..Len(chars) |-> upper_char(chars[i])]

\* `question or <template>`: None and the empty string are falsy
question_or_template_none_only(question, ticker) ==
  IF question = NoneVal
    THEN <<"Should we buy or sell ">> \o upper(ticker) \o <<"?">>
    ELSE question.chars

question_or_template(question, ticker) ==
  IF question = NoneVal \/ question.chars = << >>
    THEN <<"Should we buy or sell ">> \o upper(ticker) \o <<"?">>
    ELSE question.chars

create_initial_state(ticker, question, max_rounds) ==
  [ticker          |-> upper(ticker),
   question        |-> question_or_template(question, ticker),
   research_data   |-> NoneVal,
   current_round   |-> 0,
   max_rounds      |-> max_rounds,
   current_speaker |-> "research",
   arguments       |-> << >>,
   fact_checks     |-> << >>,
   verdict         |-> NoneVal,
   errors          |-> << >>]

\* a call create_initial_state(**kwargs): the keyword defaults of the signature
create_initial_state_kw(kwargs) ==
  create_initial_state(
    kwargs.ticker,
    IF "question" \in DOMAIN kwargs THEN kwargs.question ELSE NoneVal,
    IF "max_rounds" \in DOMAIN kwargs THEN kwargs.max_rounds ELSE 3)

MergeUpdate_replace(s, u) ==
  [k \in DOMAIN s |->
     IF k \in DOMAIN u
       THEN IF k = "arguments" THEN add_arguments(s[k], u[k]) ELSE u[k]
       ELSE create_initial_state(s.ticker, Str(s.question), s.max_rounds)[k]]

\* StateGraph(DebateState): a node's partial update is applied key by key,
\* `arguments` through its Annotated reducer, every other key by last write
MergeUpdate(s, u) ==
  [k \in DOMAIN s |->
     IF k \in DOMAIN u
       THEN IF k = "arguments" THEN add_arguments(s[k], u[k]) ELSE u[k]
       ELSE s[k]]

(***************************************************************************)
(* agents                                                                  *)
(***************************************************************************)
gather_research_one_try(failed) ==
  [kind |-> "ResearchData",
   cats |-> [c \in Categories |-> IF failed # {} THEN "empty" ELSE "fetched"]]

\* Researcher.gather_research: every fetch sits in its own try/except; a
\* failed fetch leaves the dataclass default in place
gather_research(failed) ==
  [kind |-> "ResearchData",
   cats |-> [c \in Categories |-> IF c \in failed THEN "empty" ELSE "fetched"]]

ResearcherCall(s, failed) ==
  [research_data   |-> gather_research(failed),
   current_speaker |-> "bull"]

\* the empty text, which CortexLLM.complete returns when its query yields
\* no row; every other response is identified by an ordinal >= 1
EmptyResponse == 0

\* a content that the backward search has found; None is NoneVal
Found(content) == [kind |-> "content", content |-> content]

\* for arg in reversed(arguments): if arg.get("agent") == agent:
\*     <opponent>_argument = arg.get("content"); break
last_argument(arguments, agent) ==
  LET idx == {i \in 1..Len(arguments) : arguments[i].agent = agent}
  IN  IF idx = {} THEN NoneVal
      ELSE Found(arguments[CHOOSE i \in idx : \A j \in idx : j <= i].content)

\* generate_argument: `if opponent_argument:` chooses the rebuttal prompt,
\* else the opening prompt; None and the empty text are falsy
prompt_style(opponent_argument) ==
  IF opponent_argument # NoneVal /\ opponent_argument.content # EmptyResponse
    THEN "rebuttal"
    ELSE "opening"

BullCall_to_bear(s, resp) ==
  [arguments       |-> <<Argument("bull", resp)>>,
   current_speaker |-> "bear"]

BullCall(s, resp) ==
  [arguments       |-> <<Argument("bull", resp)>>,
   current_speaker |-> "moderator"]

BearRound_twice(current_round) == current_round + 2

\* BearAgent.__call__: "current_round": current_round + 1
BearRound(current_round) == current_round + 1

\* BearAgent.__call__: next speaker from the round at the start of the turn
BearNext(current_round, max_rounds) ==
  IF current_round >= max_rounds THEN "judge" ELSE "moderator"

BearCall(s, resp) ==
  [arguments       |-> <<Argument("bear", resp)>>,
   current_speaker |-> BearNext(s.current_round, s.max_rounds),
   current_round   |-> BearRound(s.current_round)]

\* state.get("arguments", [])[-2:]
LastTwo(args) ==
  IF Len(args) <= 2 THEN args ELSE SubSeq(args, Len(args) - 1, Len(args))

Checked_all(args) == LastTwo(args)

\* the entries of the last two arguments that the Moderator fact-checks
Checked(args) == SelectSeq(LastTwo(args), LAMBDA a : a.agent \in {"bull", "bear"})

\* Moderator.fact_check
fact_check(arg, resp) == [agent_checked |-> arg.agent, feedback |-> resp]

ModeratorNext_strict(current_round, max_rounds) ==
  IF current_round > max_rounds THEN "judge" ELSE "bull"

\* Moderator.__call__: next speaker
ModeratorNext(current_round, max_rounds) ==
  IF current_round >= max_rounds THEN "judge" ELSE "bull"

\* Moderator.__call__: call `first` is the summary, the following calls are
\* the fact checks, in history order
ModeratorCall(s, first) ==
  [arguments       |-> <<Argument("moderator", first)>>,
   fact_checks     |-> [i \in 1..Len(Checked(s.arguments)) |->
                          fact_check(Checked(s.arguments)[i], first + i)],
   current_speaker |-> ModeratorNext(s.current_round, s.max_rounds)]

JudgeSpeaker_stay == "judge"

\* Judge.__call__: "current_speaker": "end"
JudgeSpeaker == "end"

JudgeCall(s, resp) ==
  [arguments       |-> <<Argument("judge", resp)>>,
   verdict         |-> [kind |-> "Verdict", summary |-> resp],
   current_speaker |-> JudgeSpeaker]

\* number of oracle calls a turn of the node makes
OracleCalls(agent, s) ==
  CASE agent = "research"  -> 0
    [] agent = "moderator" -> 1 + Len(Checked(s.arguments))
    [] OTHER               -> 1

(***************************************************************************)
(* graph/workflow.py                                                       *)
(***************************************************************************)
\* graph.add_node(name, agent): the agent bound to a node
AgentOf(n) ==
  CASE n \in {"bull", "bull_1", "bull_2"} -> "bull"
    [] n \in {"bear", "bear_1", "bear_2"} -> "bear"
    [] OTHER -> n

route_next_speaker(s) ==
  CASE s.current_speaker = "end"       -> END
    [] s.current_speaker = "bull"      -> "bull"
    [] s.current_speaker = "bear"      -> "bear"
    [] s.current_speaker = "moderator" -> "moderator"
    [] s.current_speaker = "judge"     -> "judge"
    [] OTHER                           -> "bull"

route_after_moderator_swapped(s) ==
  IF s.current_speaker = "judge" \/ s.current_round > s.max_rounds
    THEN "judge"
    ELSE IF s.current_speaker = "bull" THEN "bear" ELSE "bull"

route_after_moderator(s) ==
  IF s.current_speaker = "judge" \/ s.current_round > s.max_rounds
    THEN "judge"
    ELSE IF s.current_speaker = "bull" THEN "bull" ELSE "bear"

\* add_conditional_edges(source, path, path_map): a result that is not a
\* key of path_map raises
ConditionalEdge(result, path_map) ==
  IF result \in path_map THEN result ELSE "KeyError"

\* edges of create_debate_graph
FullEdge(n, s) ==
  CASE n = "research"  -> "bull"
    [] n = "bull"      -> ConditionalEdge(route_next_speaker(s), {"moderator", "judge", END})
    [] n = "moderator" -> ConditionalEdge(route_after_moderator(s), {"bull", "bear", "judge"})
    [] n = "bear"      -> ConditionalEdge(route_next_speaker(s), {"moderator", "judge", END})
    [] n = "judge"     -> END

SimpleEdge_one_exchange(n) ==
  CASE n = "research" -> "bull_1"
    [] n = "bull_1"   -> "bear_1"
    [] n = "bear_1"   -> "judge"
    [] n = "bull_2"   -> "bear_2"
    [] n = "bear_2"   -> "judge"
    [] n = "judge"    -> END

\* edges of create_simple_debate_graph
SimpleEdge(n) ==
  CASE n = "research" -> "bull_1"
    [] n = "bull_1"   -> "bear_1"
    [] n = "bear_1"   -> "bull_2"
    [] n = "bull_2"   -> "bear_2"
    [] n = "bear_2"   -> "judge"
    [] n = "judge"    -> END

NextNode(g, n, s) == IF g = "full" THEN FullEdge(n, s) ELSE SimpleEdge(n)

StreamMerge_overwrite(fs, initial_state, node_output) ==
  LET base == IF fs = NoneVal THEN initial_state ELSE fs
  IN  [k \in DOMAIN base |->
         IF k \in DOMAIN node_output THEN node_output[k] ELSE base[k]]

\* run_debate / main.run: "Update final state" from one streamed node output
StreamMerge(fs, initial_state, node_output) ==
  LET base == IF fs = NoneVal THEN initial_state ELSE fs
  IN  [k \in DOMAIN base |->
         IF k \in DOMAIN node_output
           THEN IF k = "arguments" THEN base[k] \o node_output[k]
                                   ELSE node_output[k]
           ELSE base[k]]

(***************************************************************************)
(* Oracle responses as texts, and the three parsers                        *)
(***************************************************************************)
\* longest response made of arbitrary lines, and longest bullet list
MaxLines == 2

MaxBullets == 6

\* one line of a response: `label` is the label the line carries ("NONE"
\* for running text, "BULLET" for a line that starts with "-"), `upper`
\* says the label is written in capitals, `lead` that it comes after a
\* list number ("1. "), `tok` is the text after the label's colon
Line(label, is_upper, lead, tok) ==
  [label |-> label, upper |-> is_upper, lead |-> lead, tok |-> tok]

PlainLine(tok) == Line("NONE", TRUE, FALSE, tok)

Lines ==
  {Line(l, TRUE, FALSE, t) :
     l \in {"CONFIDENCE", "ACCURACY_SCORE"}, t \in {"0.9", "1.8", "-0.5", "abc", ""}}
  \cup {Line(l, TRUE, FALSE, t) :
     l \in {"BULL_SCORE", "BEAR_SCORE"}, t \in {"75", "150", "-0.5"}}
  \cup {Line(l, FALSE, FALSE, "0.9") : l \in {"CONFIDENCE", "ACCURACY_SCORE"}}
  \cup {Line(l, TRUE, TRUE, "0.9") : l \in {"CONFIDENCE", "ACCURACY_SCORE"}}
  \cup {Line("BULL_SCORE", TRUE, FALSE, "abc"), Line("BULL_SCORE", FALSE, FALSE, "75")}
  \cup {Line("RECOMMENDATION", TRUE, FALSE, t) :
     t \in {"Strong Buy", "BUY", "STRONG SELL", "sell", "HOLD",
            "STRONG SELL or BUY", "maybe"}}
  \cup {Line("RECOMMENDATION", FALSE, FALSE, "BUY")}
  \cup {Line("EVIDENCE", TRUE, FALSE, "e1"), Line("EVIDENCE", TRUE, FALSE, "e2"),
        Line("EVIDENCE", FALSE, FALSE, "e1"), Line("EVIDENCE", TRUE, TRUE, "e1")}
  \cup {Line("SUMMARY", TRUE, FALSE, "s1"), Line("SUMMARY", FALSE, FALSE, "s2")}
  \cup {Line("KEY_FACTORS", TRUE, FALSE, ""), Line("RISKS_TO_MONITOR", TRUE, FALSE, "")}
  \cup {Line("BULLET", TRUE, FALSE, "f1")}
  \cup {PlainLine("w1"), PlainLine("a STRONG BUY")}

BulletLines ==
  {Line("KEY_FACTORS", TRUE, FALSE, ""), Line("RISKS_TO_MONITOR", TRUE, FALSE, ""),
   Line("BULLET", TRUE, FALSE, "f1"), Line("BULLET", TRUE, FALSE, "f2")}

Texts ==
  UNION {[1..n -> Lines] : n \in 0..MaxLines}
  \cup UNION {[1..n -> BulletLines] : n \in 0..MaxBullets}

\* float(s) of a token, in tenths
FloatTokens == {"0.9", "1.8", "-0.5", "75", "150"}

float(tok) ==
  CASE tok = "0.9"  -> 9
    [] tok = "1.8"  -> 18
    [] tok = "-0.5" -> 0 - 5
    [] tok = "75"   -> 750
    [] tok = "150"  -> 1500

\* float(value.strip().split()[0]): indexing the empty split raises
\* IndexError, float of a non-number raises ValueError
first_float(tok) ==
  IF tok = "" THEN [exc |-> "IndexError"]
  ELSE IF tok \in FloatTokens THEN [exc |-> "none", v |-> float(tok)]
  ELSE [exc |-> "ValueError"]

try_except_value_error(acc, field, r) ==
  IF r.exc = "none" THEN [acc EXCEPT ![field] = r.v]
  ELSE IF r.exc = "ValueError" THEN acc
  ELSE [acc EXCEPT !.exc = r.exc]

\* try: field = float(...)  except: pass
try_except(acc, field, r) ==
  IF r.exc = "none" THEN [acc EXCEPT ![field] = r.v] ELSE acc

clamp_no_upper(x, lo, hi) == IF x < lo THEN lo ELSE x

\* min(max(x, lo), hi)
clamp(x, lo, hi) ==
  LET m == IF x > lo THEN x ELSE lo
  IN  IF m < hi THEN m ELSE hi

\* line.startswith("LABEL:")
startswith(line, label) == line.label = label /\ line.upper /\ ~line.lead

\* "LABEL:" in line
label_in_line(line, label) == line.label = label /\ line.upper

\* "LABEL:" in line.upper()
label_in_line_upper(line, label) == line.label = label

\* BullAgent.generate_argument / BearAgent.generate_argument: one line
is_evidence_line_any_label(line) == line.label \notin {"CONFIDENCE", "BULLET"}

is_evidence_line(line) == startswith(line, "EVIDENCE")

generate_argument_line(acc, line) ==
  IF startswith(line, "CONFIDENCE")
    THEN try_except(acc, "confidence", first_float(line.tok))
  ELSE IF is_evidence_line(line)
    THEN [acc EXCEPT !.evidence = Append(@, line.tok)]
  ELSE acc

\* Moderator.fact_check: one line
parse_accuracy_line(acc, line) ==
  IF label_in_line(line, "ACCURACY_SCORE")
    THEN try_except(acc, "accuracy", first_float(line.tok))
  ELSE acc

\* the labels of a recommendation that occur in rec_text = value.upper()
rec_in_rec_text(tok) ==
  CASE tok = "Strong Buy"         -> {"STRONG BUY", "BUY"}
    [] tok = "BUY"                -> {"BUY"}
    [] tok = "STRONG SELL"        -> {"STRONG SELL", "SELL"}
    [] tok = "sell"               -> {"SELL"}
    [] tok = "HOLD"               -> {"HOLD"}
    [] tok = "STRONG SELL or BUY" -> {"STRONG SELL", "SELL", "BUY"}
    [] tok = "a STRONG BUY"       -> {"STRONG BUY", "BUY"}
    [] OTHER                      -> {}

Recommendations_buy_first == <<"BUY", "SELL", "STRONG BUY", "STRONG SELL", "HOLD">>

\* the list of generate_verdict's inner loop, in its order
Recommendations == <<"STRONG BUY", "STRONG SELL", "BUY", "SELL", "HOLD">>

\* for rec in [...]: if rec in rec_text: recommendation = rec; break
match_recommendation(acc, tok) ==
  LET hits == {i \in 1..Len(Recommendations) :
                 Recommendations[i] \in rec_in_rec_text(tok)}
  IN  IF hits = {} THEN acc
      ELSE [acc EXCEPT !.recommendation =
              Recommendations[CHOOSE i \in hits : \A j \in hits : i <= j]]

summary_value_with_label(line) == <<line>>

\* line.split(":", 1)[1].strip(): the text after the label, as a text
summary_value(line) == <<PlainLine(line.tok)>>

\* Judge.generate_verdict: one line
generate_verdict_line(acc, line) ==
  IF label_in_line_upper(line, "RECOMMENDATION")
    THEN match_recommendation(acc, line.tok)
  ELSE IF label_in_line_upper(line, "CONFIDENCE")
    THEN try_except(acc, "confidence", first_float(line.tok))
  ELSE IF label_in_line_upper(line, "BULL_SCORE")
    THEN try_except(acc, "bull_score", first_float(line.tok))
  ELSE IF label_in_line_upper(line, "BEAR_SCORE")
    THEN try_except(acc, "bear_score", first_float(line.tok))
  ELSE IF label_in_line_upper(line, "SUMMARY")
    THEN [acc EXCEPT !.summary = summary_value(line)]
  ELSE IF label_in_line_upper(line, "KEY_FACTORS")
    THEN acc
  ELSE IF line.label = "BULLET" /\ Len(acc.key_factors) < 5
    THEN [acc EXCEPT !.key_factors = Append(@, line.tok)]
  ELSE acc

\* the body of the loop over the lines, in each of the three parsers
loop_body(fn, acc, line) ==
  CASE fn = "generate_argument" -> generate_argument_line(acc, line)
    [] fn = "fact_check"        -> parse_accuracy_line(acc, line)
    [] fn = "generate_verdict"  -> generate_verdict_line(acc, line)

\* for line in response.split("\n"): ...
RECURSIVE for_lines(_, _, _)
for_lines(fn, acc, lines) ==
  IF lines = << >> \/ acc.exc # "none" THEN acc
  ELSE for_lines(fn, loop_body(fn, acc, Head(lines)), Tail(lines))

\* BullAgent.generate_argument / BearAgent.generate_argument, after the
\* oracle call: the Argument built from the response
generate_argument(agent, response) ==
  LET acc == for_lines("generate_argument",
                       [exc |-> "none", confidence |-> 7, evidence |-> << >>],
                       response)
  IN  IF acc.exc # "none" THEN [exc |-> acc.exc]
      ELSE [exc        |-> "none",
            agent      |-> agent,
            content    |-> response,
            evidence   |-> acc.evidence,
            confidence |-> clamp(acc.confidence, 0, 10)]

\* Moderator.fact_check, after the oracle call: the FactCheck built from
\* the response
parse_fact_check(agent, response) ==
  LET acc == for_lines("fact_check",
                       [exc |-> "none", accuracy |-> 7], response)
  IN  IF acc.exc # "none" THEN [exc |-> acc.exc]
      ELSE [exc            |-> "none",
            agent_checked  |-> agent,
            accuracy_score |-> acc.accuracy,
            feedback       |-> response]

\* seq[:n]
Take(seq, n) == IF Len(seq) <= n THEN seq ELSE SubSeq(seq, 1, n)

\* Judge.generate_verdict, after the oracle call: the Verdict built from
\* the response
generate_verdict(response) ==
  LET acc == for_lines("generate_verdict",
                       [exc            |-> "none",
                        recommendation |-> "HOLD",
                        confidence     |-> 5,
                        bull_score     |-> 500,
                        bear_score     |-> 500,
                        summary        |-> response,
                        key_factors    |-> << >>,
                        risks          |-> << >>],
                       response)
      key_factors == IF acc.key_factors = << >>
                       THEN <<"See detailed analysis in summary">>
                       ELSE acc.key_factors
      risks == IF acc.risks = << >>
                 THEN <<"Market volatility", "Execution risk">>
                 ELSE acc.risks
  IN  IF acc.exc # "none" THEN [exc |-> acc.exc]
      ELSE [exc            |-> "none",
            recommendation |-> acc.recommendation,
            confidence     |-> clamp(acc.confidence, 0, 10),
            summary        |-> acc.summary,
            bull_score     |-> clamp(acc.bull_score, 0, 1000),
            bear_score     |-> clamp(acc.bear_score, 0, 1000),
            key_factors    |-> Take(key_factors, 5),
            risks          |-> Take(risks, 3)]

(***************************************************************************)
(* The run                                                                 *)
(***************************************************************************)
\* the ticker and the questions a run is started with
RunTicker == <<"n", "v">>

RunQuestions == {NoneVal, Str(<<"q">>)}

\* the initial_state object run_debate keeps: its ticker, question and
\* max_rounds are the ones every later state still carries
initial_state(s) == create_initial_state(s.ticker, Str(s.question), s.max_rounds)

Init ==
  /\ graph \in {"full", "simple"}
  /\ \E m \in 0..MaxRounds, q \in RunQuestions :
       state = create_initial_state(RunTicker, q, m)
  /\ node = "research"
  /\ final_state = NoneVal
  /\ status = "running"
  /\ steps = 0
  /\ llm_calls = 0
  /\ turns = << >>
  /\ raised = {}
  /\ fn_in = NoneVal
  /\ fn_out = NoneVal

\* one superstep: merge the node's update, stream it, follow the edges
Superstep(update, calls) ==
  LET merged == MergeUpdate(state, update)
      next   == NextNode(graph, node, merged)
  IN  /\ state' = merged
      /\ final_state' = StreamMerge(final_state, initial_state(state), update)
      /\ node' = next
      /\ status' = IF next = END THEN "done"
                   ELSE IF next = "KeyError" THEN "routing_error"
                   ELSE "running"
      /\ steps' = steps + 1
      /\ llm_calls' = llm_calls + calls
      /\ turns' = Append(turns, node)
      /\ UNCHANGED <<graph, fn_in, fn_out>>

CanRun(agent) ==
  /\ status = "running"
  /\ steps < RecursionLimit
  /\ AgentOf(node) = agent

ResearchTurn ==
  /\ CanRun("research")
  /\ \E failed \in SUBSET Categories :
       /\ Superstep(ResearcherCall(state, failed), 0)
       /\ raised' = failed

BullTurn ==
  /\ CanRun("bull")
  /\ Superstep(BullCall(state, llm_calls + 1), 1)
  /\ UNCHANGED raised

BearTurn ==
  /\ CanRun("bear")
  /\ Superstep(BearCall(state, llm_calls + 1), 1)
  /\ UNCHANGED raised

ModeratorTurn ==
  /\ CanRun("moderator")
  /\ Superstep(ModeratorCall(state, llm_calls + 1), OracleCalls("moderator", state))
  /\ UNCHANGED raised

JudgeTurn ==
  /\ CanRun("judge")
  /\ Superstep(JudgeCall(state, llm_calls + 1), 1)
  /\ UNCHANGED raised

OracleFailure_partial ==
  /\ status = "running"
  /\ steps < RecursionLimit
  /\ \E k \in 1..OracleCalls(AgentOf(node), state) :
       /\ llm_calls' = llm_calls + k
       /\ state' = IF k >= 2
                     THEN MergeUpdate(state,
                            [arguments |-> <<Argument(AgentOf(node), llm_calls + 1)>>])
                     ELSE state
  /\ status' = "oracle_error"
  /\ UNCHANGED <<graph, node, final_state, steps, turns, raised, fn_in, fn_out>>

\* CortexLLM.complete raises in the k-th oracle call of the turn: the node
\* raises, nothing is merged or streamed, the error leaves graph.stream
OracleFailure ==
  /\ status = "running"
  /\ steps < RecursionLimit
  /\ \E k \in 1..OracleCalls(AgentOf(node), state) :
       llm_calls' = llm_calls + k
  /\ status' = "oracle_error"
  /\ UNCHANGED <<graph, node, state, final_state, steps, turns, raised,
                 fn_in, fn_out>>

\* GraphRecursionError: the limit is used up and a node is still pending
RecursionAbort ==
  /\ status = "running"
  /\ steps = RecursionLimit
  /\ status' = "recursion_error"
  /\ UNCHANGED <<graph, node, state, final_state, steps, llm_calls, turns,
                 raised, fn_in, fn_out>>

Next ==
  \/ ResearchTurn
  \/ BullTurn
  \/ BearTurn
  \/ ModeratorTurn
  \/ JudgeTurn
  \/ OracleFailure
  \/ RecursionAbort

Spec == Init /\ [][Next]_vars

(***************************************************************************)
(* The pure functions applied to bounded inputs                            *)
(***************************************************************************)
MaxTickerLen == 2

TickerChars == {"n", "V", "7"}

Tickers == UNION {[1..n -> TickerChars] : n \in 1..MaxTickerLen}

Questions == {NoneVal, Str(<< >>), Str(<<"q">>), Str(<<"Q", "n">>)}

\* the keyword arguments of a call of create_initial_state
Kwargs ==
  {[ticker |-> t] : t \in Tickers}
  \cup {[ticker |-> t, question |-> q] : t \in Tickers, q \in Questions}
  \cup {[ticker |-> t, max_rounds |-> m] : t \in Tickers, m \in 0..MaxRounds}
  \cup {[ticker |-> t, question |-> q, max_rounds |-> m] :
          t \in Tickers, q \in Questions, m \in 0..MaxRounds}

\* longest argument history a node function is called on
MaxHistory == 3

\* the entries of a history: advocates with an empty or non-empty content
HistoryArguments ==
  {Argument(a, c) : a \in {"bull", "bear"}, c \in {EmptyResponse, 1, 2}}
  \cup {Argument("moderator", 1), Argument("judge", 1)}

Histories == UNION {[1..n -> HistoryArguments] : n \in 0..MaxHistory}

\* the states a node function is called on
NodeStates ==
  {[create_initial_state(RunTicker, NoneVal, m)
      EXCEPT !.arguments = h, !.current_round = r] :
     h \in Histories, m \in 0..MaxRounds, r \in 0..1}

FnInit ==
  /\ fn_in \in {[kind |-> "response", text |-> t] : t \in Texts}
              \cup {[kind |-> "kwargs", kwargs |-> k] : k \in Kwargs}
              \cup {[kind |-> "state", state |-> s] : s \in NodeStates}
  /\ fn_out = NoneVal
  /\ graph = "none"
  /\ node = END
  /\ state = NoneVal
  /\ final_state = NoneVal
  /\ status = "idle"
  /\ steps = 0
  /\ llm_calls = 0
  /\ turns = << >>
  /\ raised = {}

Returns(fn, agent, value) ==
  /\ fn_out = NoneVal
  /\ fn_out' = [fn |-> fn, agent |-> agent, value |-> value]
  /\ UNCHANGED <<graph, node, state, final_state, status, steps, llm_calls,
                 turns, raised, fn_in>>

CreateInitialState ==
  /\ fn_in.kind = "kwargs"
  /\ Returns("create_initial_state", "none", create_initial_state_kw(fn_in.kwargs))

GenerateArgument ==
  /\ fn_in.kind = "response"
  /\ \E agent \in {"bull", "bear"} :
       Returns("generate_argument", agent, generate_argument(agent, fn_in.text))

FactCheck ==
  /\ fn_in.kind = "response"
  /\ \E agent \in {"bull", "bear"} :
       Returns("fact_check", agent, parse_fact_check(agent, fn_in.text))

GenerateVerdict ==
  /\ fn_in.kind = "response"
  /\ Returns("generate_verdict", "judge", generate_verdict(fn_in.text))

\* what a node function did on the state it was called on: the update it
\* returns, the opponent argument it looked up and the prompt it chose
\* (advocates only), and the number of oracle calls it made
NodeResult(agent, s, update) ==
  [update   |-> update,
   opponent |-> CASE agent = "bull" -> last_argument(s.arguments, "bear")
                  [] agent = "bear" -> last_argument(s.arguments, "bull")
                  [] OTHER          -> NoneVal,
   style    |-> CASE agent = "bull" ->
                       prompt_style(last_argument(s.arguments, "bear"))
                  [] agent = "bear" ->
                       prompt_style(last_argument(s.arguments, "bull"))
                  [] OTHER          -> "none",
   calls    |-> OracleCalls(agent, s)]

BullNode ==
  /\ fn_in.kind = "state"
  /\ Returns("__call__", "bull",
             NodeResult("bull", fn_in.state, BullCall(fn_in.state, 1)))

BearNode ==
  /\ fn_in.kind = "state"
  /\ Returns("__call__", "bear",
             NodeResult("bear", fn_in.state, BearCall(fn_in.state, 1)))

ModeratorNode ==
  /\ fn_in.kind = "state"
  /\ Returns("__call__", "moderator",
             NodeResult("moderator", fn_in.state, ModeratorCall(fn_in.state, 1)))

JudgeNode ==
  /\ fn_in.kind = "state"
  /\ Returns("__call__", "judge",
             NodeResult("judge", fn_in.state, JudgeCall(fn_in.state, 1)))

FnNext ==
  \/ CreateInitialState
  \/ GenerateArgument
  \/ FactCheck
  \/ GenerateVerdict
  \/ BullNode
  \/ BearNode
  \/ ModeratorNode
  \/ JudgeNode

FnSpec == FnInit /\ [][FnNext]_vars

(***************************************************************************)
(* Helpers for the properties                                              *)
(***************************************************************************)
IsPrefix(a, b) == Len(a) <= Len(b) /\ \A i \in 1..Len(a) : a[i] = b[i]

\* the step is a completed turn of the given agent
TurnOf(agent) == AgentOf(node) = agent /\ steps' = steps + 1

RunOver == status \notin {"running", "oracle_error"}

(***************************************************************************)
(* Properties                                                              *)
(***************************************************************************)
\* C1: a run of the full graph with max_rounds >= 1 in which no oracle call
\* fails ends at current_speaker = "end" with a verdict, in the graph state
\* and in the final_state that run_debate returns.
C1_RunEndsWithVerdict ==
  (graph = "full" /\ state.max_rounds >= 1 /\ RunOver) =>
     /\ state.current_speaker = "end"
     /\ state.verdict # NoneVal
     /\ final_state # NoneVal
     /\ final_state.verdict # NoneVal

\* C2: in the full graph there is a Bear turn between any two Bull turns.
C2_BearBetweenBulls ==
  graph = "full" =>
    \A i, j \in 1..Len(turns) :
      (i < j /\ turns[i] = "bull" /\ turns[j] = "bull") =>
         \E k \in (i + 1)..(j - 1) : turns[k] = "bear"

\* C3: verdict is set if and only if current_speaker = "end" (both graphs).
C3_VerdictIffEnd ==
  (state.verdict # NoneVal) <=> (state.current_speaker = "end")

C3_Witness ==
  state.verdict # NoneVal /\ state.current_speaker = "end"

\* C4: a Judge turn always sets current_speaker to "end", only a Judge turn
\* does, and from "end" on nothing changes any more.
C4_OnlyJudgeEnds ==
  [][ /\ TurnOf("judge") => state'.current_speaker = "end"
      /\ (state.current_speaker # "end" /\ state'.current_speaker = "end")
           => TurnOf("judge")
      /\ state.current_speaker = "end" => UNCHANGED vars ]_vars

C4_Witness ==
  /\ status = "done"
  /\ Len(turns) > 0
  /\ turns[Len(turns)] = "judge"
  /\ state.current_speaker = "end"
  /\ state.current_round # state.max_rounds

\* C5: current_round <= max_rounds + 1 in every reachable state, for every
\* max_rounds >= 0 and both graphs.
C5_RoundBound ==
  state.max_rounds >= 0 => state.current_round <= state.max_rounds + 1

\* C6: the arguments history only grows at its end, in the graph state and
\* in the final_state rebuilt from the streamed node outputs.
C6_ArgumentsAppendOnly ==
  [][ /\ IsPrefix(state.arguments, state'.arguments)
      /\ final_state # NoneVal =>
           IsPrefix(final_state.arguments, final_state'.arguments) ]_vars

C6_Witness ==
  /\ Len(state.arguments) >= 3
  /\ final_state # NoneVal
  /\ Len(final_state.arguments) >= 3

\* C7: every FactCheck present in fact_checks is still present after every
\* later step.
C7_FactChecksAppendOnly ==
  [][ \A i \in 1..Len(state.fact_checks) :
        \E j \in 1..Len(state'.fact_checks) :
          state'.fact_checks[j] = state.fact_checks[i] ]_vars

\* C8: in the full graph the participant after a Bull or Bear turn is the
\* Judge if current_round >= max_rounds at that turn, else the Moderator.
C8_AdvocateRouting ==
  [][ (graph = "full" /\ (TurnOf("bull") \/ TurnOf("bear"))) =>
        node' = IF state.current_round >= state.max_rounds
                  THEN "judge" ELSE "moderator" ]_vars

\* C9 (as stated): every Moderator turn increases current_round by 1.
C9_ModeratorIncrements ==
  [][ TurnOf("moderator") =>
        state'.current_round = state.current_round + 1 ]_vars

\* C9 (amended): every Bear turn increases current_round by exactly 1 and
\* no other step, a Moderator turn included, changes current_round.
C9_BearIncrements ==
  [][ /\ TurnOf("bear") => state'.current_round = state.current_round + 1
      /\ ~TurnOf("bear") => state'.current_round = state.current_round ]_vars

C9_Witness ==
  /\ \E i \in 1..Len(turns) : AgentOf(turns[i]) = "bear"
  /\ state.current_round = 2

\* C10: after a Moderator turn of the full graph the next participant is
\* the Judge iff current_round >= max_rounds at that turn, else an advocate.
C10_AfterModerator ==
  [][ (graph = "full" /\ TurnOf("moderator")) =>
        /\ (node' = "judge") <=> (state.current_round >= state.max_rounds)
        /\ node' # "judge" => node' \in {"bull", "bear"} ]_vars

C10_Witness ==
  /\ graph = "full"
  /\ Len(turns) > 0
  /\ turns[Len(turns)] = "moderator"
  /\ node = "judge"

Min(a, b) == IF a <= b THEN a ELSE b

\* number of arguments of the given speaker
Count(args, agent) == Cardinality({i \in 1..Len(args) : args[i].agent = agent})

\* number of Bear arguments whose preceding advocate argument is a Bull one
Exchanges(args) ==
  Cardinality({j \in 1..Len(args) :
     /\ args[j].agent = "bear"
     /\ \E i \in 1..(j - 1) :
          /\ args[i].agent = "bull"
          /\ \A k \in (i + 1)..(j - 1) : args[k].agent \notin {"bull", "bear"}})

EndToEndTurns == <<"research", "bull", "bear", "moderator", "judge">>

\* C11 (as stated): on both graphs the participant to run is the one named
\* by current_speaker.
C11_NodeFollowsSpeaker ==
  status = "running" => AgentOf(node) = state.current_speaker

\* C11 (amended): on the full graph the participant to run is the one named
\* by current_speaker as left by the previous step (the simple graph follows
\* its fixed edges whatever current_speaker is).
C11_FullNodeFollowsSpeaker ==
  (graph = "full" /\ status = "running") => node = state.current_speaker

C11_Witness ==
  /\ graph = "full"
  /\ status = "running"
  /\ Len(turns) > 0
  /\ turns[Len(turns)] = "moderator"
  /\ node = "bull"
  /\ state.current_speaker = "bull"

\* C12: a completed debate started with max_rounds = N in 1..5 has exactly N
\* Bull arguments and N Bear arguments in its final arguments history.
C12_RoundsAreExchanges ==
  (status = "done" /\ state.max_rounds \in 1..5) =>
     /\ Count(final_state.arguments, "bull") = state.max_rounds
     /\ Count(final_state.arguments, "bear") = state.max_rounds

\* C13: an oracle failure in a turn aborts the run: the failing turn merges
\* nothing (no argument, fact check, verdict or routing change, in the graph
\* state or in final_state) and no step follows it.
C13_OracleFailureAborts ==
  [][ /\ (status = "running" /\ status' = "oracle_error") =>
           /\ state' = state
           /\ final_state' = final_state
           /\ turns' = turns
           /\ node' = node
      /\ status = "oracle_error" => UNCHANGED vars ]_vars

C13_Witness ==
  /\ status = "oracle_error"
  /\ node = "moderator"
  /\ Len(turns) = 2
  /\ llm_calls = 3

\* C14: whatever subset of the nine category fetches raises, the Research
\* Stage does not raise, a failed category keeps its empty default, the
\* others hold the fetched value, and current_speaker becomes "bull".
C14_CategoryIsolation ==
  [][ node = "research" =>
        /\ TurnOf("research")
        /\ status' = "running"
        /\ state'.current_speaker = "bull"
        /\ state'.research_data # NoneVal
        /\ \A c \in Categories :
             state'.research_data.cats[c] =
               IF c \in raised' THEN "empty" ELSE "fetched" ]_vars

C14_Witness ==
  /\ state.research_data # NoneVal
  /\ raised = {"earnings_history", "sec_filings"}
  /\ state.research_data.cats["metrics"] = "fetched"
  /\ state.research_data.cats["earnings_history"] = "empty"

\* C15: after the Research Stage state.errors holds one entry for every
\* category fetch that raised.
C15_FetchErrorsRecorded ==
  state.research_data # NoneVal => Len(state.errors) = Cardinality(raised)

\* C16: the number of turns of a run of the full graph never exceeds a
\* ceiling derived from max_rounds, 2 * max_rounds + 4.
C16_StepCeiling ==
  graph = "full" => steps <= 2 * state.max_rounds + 4

\* C17: on the full graph with max_rounds = 1 the turns are exactly research,
\* bull, bear, moderator, judge, and the final state has 3 arguments, 0 or 2
\* fact checks, a verdict and current_speaker = "end".
C17_EndToEnd ==
  (graph = "full" /\ state.max_rounds = 1) =>
     /\ IsPrefix(turns, EndToEndTurns)
     /\ RunOver =>
          /\ turns = EndToEndTurns
          /\ Len(state.arguments) = 3
          /\ Len(state.fact_checks) \in {0, 2}
          /\ state.verdict # NoneVal
          /\ state.current_speaker = "end"

\* C18: in a completed session (current_speaker = "end") of either graph
\* len(arguments) >= 2 * min(current_round, max_rounds).
C18_ArgumentsCoverRounds ==
  state.current_speaker = "end" =>
    Len(state.arguments) >= 2 * Min(state.current_round, state.max_rounds)

C18_Witness ==
  /\ state.current_speaker = "end"
  /\ Min(state.current_round, state.max_rounds) = 2

\* C19: every FactCheck has agent_checked in {bull, bear} and refers to an
\* argument of that speaker that stands before the Moderator summary of the
\* turn that produced the FactCheck (among the two entries before it).
C19_FactChecksReferEarlier ==
  \A f \in 1..Len(state.fact_checks) :
    LET fc == state.fact_checks[f]
    IN  /\ fc.agent_checked \in {"bull", "bear"}
        /\ \E m \in 1..Len(state.arguments) :
             /\ state.arguments[m].agent = "moderator"
             /\ state.arguments[m].content = fc.feedback - f
             /\ \E p \in (m - 2)..(m - 1) :
                  /\ p >= 1
                  /\ state.arguments[p].agent = fc.agent_checked

C19_Witness ==
  /\ Len(state.fact_checks) >= 1
  /\ Count(state.arguments, "moderator") >= 2

\* C20: current_round equals the number of completed advocate-pair
\* exchanges (a Bull argument followed by a Bear argument) in the history.
C20_RoundCountsExchanges ==
  state.current_round = Exchanges(state.arguments)

C20_Witness ==
  /\ Exchanges(state.arguments) = 2
  /\ state.current_round = 2
  /\ Count(state.arguments, "bull") = 2

(***************************************************************************)
(* Helpers for the properties of the pure functions                        *)
(***************************************************************************)
Returned(fn) == fn_out # NoneVal /\ fn_out.fn = fn

\* u is t with every lower-case letter replaced by its capital
IsUpperOf(u, t) ==
  /\ Len(u) = Len(t)
  /\ \A i \in 1..Len(t) :
       \/ (t[i] = "n" /\ u[i] = "N")
       \/ (t[i] \in {"N", "V", "7"} /\ u[i] = t[i])

\* the number a field ends with when the last line that carries the label
\* (as the recogniser rec sees it) and a number decides, else the default
Effective(text, rec(_, _), label, default) ==
  LET ps == SelectSeq(text, LAMBDA l : rec(l, label) /\ l.tok \in FloatTokens)
  IN  IF ps = << >> THEN default ELSE float(ps[Len(ps)].tok)

InRange(stored, eff, hi) ==
  /\ stored \in 0..hi
  /\ (eff > hi => stored = hi)
  /\ (eff < 0 => stored = 0)

\* no line of the text carries the label with a value that is a number
NoNumberFor(text, label) ==
  \A i \in 1..Len(text) : text[i].label = label => text[i].tok \notin FloatTokens

\* the bullets that follow the header line, up to the next non-bullet line
RECURSIVE Section(_, _, _)
Section(lines, header, inside) ==
  IF lines = << >> THEN << >>
  ELSE LET l == Head(lines)
       IN  IF l.label = "BULLET"
             THEN (IF inside THEN <<l.tok>> ELSE << >>)
                  \o Section(Tail(lines), header, inside)
             ELSE Section(Tail(lines), header, l.label = header)

\* the text with every label written in capitals
Capitalised(text) == [i \in 1..Len(text) |-> [text[i] EXCEPT !.upper = TRUE]]

(***************************************************************************)
(* Properties of the pure functions (FnSpec) and of the frame (Spec)       *)
(***************************************************************************)
\* C21: create_initial_state returns current_round 0, current_speaker
\* "research", empty arguments, fact_checks and errors, no verdict, no
\* research_data, the ticker in capitals, max_rounds as given (3 when
\* omitted), and the given question, or the templated buy-or-sell question
\* for the capitalised ticker when the question is omitted or empty.
C21_InitialState ==
  Returned("create_initial_state") =>
    LET k == fn_in.kwargs
        s == fn_out.value
    IN  /\ s.current_round = 0
        /\ s.current_speaker = "research"
        /\ s.arguments = << >>
        /\ s.fact_checks = << >>
        /\ s.errors = << >>
        /\ s.verdict = NoneVal
        /\ s.research_data = NoneVal
        /\ IsUpperOf(s.ticker, k.ticker)
        /\ s.max_rounds = IF "max_rounds" \in DOMAIN k THEN k.max_rounds ELSE 3
        /\ s.question =
             IF "question" \in DOMAIN k /\ k.question # NoneVal
                /\ k.question # Str(<< >>)
               THEN k.question.chars
               ELSE <<"Should we buy or sell ">> \o s.ticker \o <<"?">>

C21_Witness ==
  /\ Returned("create_initial_state")
  /\ fn_in.kwargs = [ticker |-> <<"n", "V">>, question |-> Str(<< >>)]
  /\ fn_out.value.ticker = <<"N", "V">>
  /\ fn_out.value.question = <<"Should we buy or sell ", "N", "V", "?">>
  /\ fn_out.value.max_rounds = 3

\* C22: whatever number the oracle writes, the stored Argument.confidence
\* and Verdict.confidence lie in [0, 1] and the stored bull_score and
\* bear_score in [0, 100]; a number above the range is stored as the upper
\* bound and a negative number as 0.
C22_Clamped ==
  /\ Returned("generate_argument") =>
       /\ fn_out.value.exc = "none"
       /\ InRange(fn_out.value.confidence,
                  Effective(fn_in.text, startswith, "CONFIDENCE", 7), 10)
  /\ Returned("generate_verdict") =>
       /\ fn_out.value.exc = "none"
       /\ InRange(fn_out.value.confidence,
                  Effective(fn_in.text, label_in_line_upper, "CONFIDENCE", 5), 10)
       /\ InRange(fn_out.value.bull_score,
                  Effective(fn_in.text, label_in_line_upper, "BULL_SCORE", 500), 1000)
       /\ InRange(fn_out.value.bear_score,
                  Effective(fn_in.text, label_in_line_upper, "BEAR_SCORE", 500), 1000)

C22_Witness ==
  /\ Returned("generate_verdict")
  /\ fn_in.text = <<Line("BULL_SCORE", TRUE, FALSE, "150"),
                    Line("CONFIDENCE", TRUE, FALSE, "-0.5")>>
  /\ fn_out.value.bull_score = 1000
  /\ fn_out.value.confidence = 0

\* C23: every FactCheck has accuracy_score in [0, 1], also when the oracle
\* writes a well-formed number outside that range.
C23_AccuracyClamped ==
  Returned("fact_check") =>
    /\ fn_out.value.exc = "none"
    /\ fn_out.value.accuracy_score \in 0..10

\* the words of the five recommendations found on the RECOMMENDATION lines
FoundInText(text) ==
  UNION {rec_in_rec_text(text[i].tok) :
           i \in {j \in 1..Len(text) : text[j].label = "RECOMMENDATION"}}

\* C24 (as stated): a response whose RECOMMENDATION lines, however many and
\* in whatever order, contain "STRONG BUY" (and so "BUY") gives STRONG BUY,
\* one that contains "STRONG SELL" (and so "SELL") gives STRONG SELL, and
\* one that contains none of the five gives HOLD.
C24_StrongBeatsPlain ==
  Returned("generate_verdict") =>
    LET found == FoundInText(fn_in.text)
        rec   == fn_out.value.recommendation
    IN  /\ ("STRONG BUY" \in found => rec = "STRONG BUY")
        /\ ("STRONG SELL" \in found /\ "STRONG BUY" \notin found
              => rec = "STRONG SELL")
        /\ (found = {} => rec = "HOLD")

\* the RECOMMENDATION lines whose value names one of the five
MatchingLines(text) ==
  SelectSeq(text, LAMBDA l : l.label = "RECOMMENDATION"
                             /\ rec_in_rec_text(l.tok) # {})

\* C24 (amended): the last RECOMMENDATION line whose value names one of
\* the five decides; on that line STRONG BUY wins over everything, then
\* STRONG SELL, then BUY, then SELL, then HOLD; with no such line the
\* recommendation is HOLD.
C24_LastMatchingLineDecides ==
  Returned("generate_verdict") =>
    LET ms  == MatchingLines(fn_in.text)
        rec == fn_out.value.recommendation
    IN  IF ms = << >> THEN rec = "HOLD"
        ELSE LET found == rec_in_rec_text(ms[Len(ms)].tok)
             IN  /\ rec \in found
                 /\ ("STRONG BUY" \in found => rec = "STRONG BUY")
                 /\ ("STRONG SELL" \in found /\ "STRONG BUY" \notin found
                       => rec = "STRONG SELL")
                 /\ ("BUY" \in found /\ "STRONG BUY" \notin found
                     /\ "STRONG SELL" \notin found => rec = "BUY")

C24_Witness ==
  /\ Returned("generate_verdict")
  /\ fn_in.text = <<Line("RECOMMENDATION", TRUE, FALSE, "BUY"),
                    Line("RECOMMENDATION", TRUE, FALSE, "Strong Buy")>>
  /\ fn_out.value.recommendation = "STRONG BUY"

C26_BulletLists ==
  Returned("generate_verdict") =>
    LET factors == Section(fn_in.text, "KEY_FACTORS", FALSE)
        risks   == Section(fn_in.text, "RISKS_TO_MONITOR", FALSE)
        v       == fn_out.value
    IN  /\ Len(v.key_factors) \in 1..5
        /\ Len(v.risks) \in 1..3
        /\ IF factors = << >> THEN Len(v.key_factors) = 1
                              ELSE v.key_factors = Take(factors, 5)
        /\ IF risks = << >> THEN Len(v.risks) = 1
                            ELSE v.risks = Take(risks, 3)

C28_NoLabelDefaults ==
  (/\ Returned("generate_argument")
   /\ \A i \in 1..Len(fn_in.text) :
        fn_in.text[i].label \notin {"CONFIDENCE", "EVIDENCE"}) =>
    /\ fn_out.value.exc = "none"
    /\ fn_out.value.confidence = 7
    /\ fn_out.value.evidence = << >>
    /\ fn_out.value.content = fn_in.text

C28_Witness ==
  /\ Returned("generate_argument")
  /\ fn_in.text = <<PlainLine("w1"), Line("SUMMARY", TRUE, FALSE, "s1")>>
  /\ fn_out.value.confidence = 7
  /\ fn_out.value.evidence = << >>
  /\ fn_out.value.content = fn_in.text

\* C29: labels are recognised whatever their case: a response gives the
\* same parsed fields as the same response with its labels in capitals,
\* for Arguments, FactChecks and Verdicts.
C29_CaseInsensitiveLabels ==
  /\ Returned("generate_argument") =>
       LET w == generate_argument(fn_out.agent, Capitalised(fn_in.text))
       IN  /\ fn_out.value.confidence = w.confidence
           /\ fn_out.value.evidence = w.evidence
  /\ Returned("fact_check") =>
       fn_out.value.accuracy_score =
         parse_fact_check(fn_out.agent, Capitalised(fn_in.text)).accuracy_score
  /\ Returned("generate_verdict") =>
       LET w == generate_verdict(Capitalised(fn_in.text))
       IN  /\ fn_out.value.recommendation = w.recommendation
           /\ fn_out.value.confidence = w.confidence
           /\ fn_out.value.bull_score = w.bull_score
           /\ fn_out.value.bear_score = w.bear_score

\* C30: research_data is written only by the Research Stage, which is the
\* first turn of a run and runs once; every other turn leaves
\* research_data as it is; no turn changes ticker, question or max_rounds.
C30_ResearchWrittenOnce ==
  [][/\ TurnOf("research") =>
          /\ turns = << >>
          /\ state.research_data = NoneVal
          /\ state'.research_data # NoneVal
     /\ ~TurnOf("research") => state'.research_data = state.research_data
     /\ state'.ticker = state.ticker
     /\ state'.question = state.question
     /\ state'.max_rounds = state.max_rounds]_vars

C30_Witness ==
  /\ status = "done"
  /\ Len(turns) >= 4
  /\ turns[1] = "research"
  /\ state.research_data # NoneVal
  /\ state.ticker = <<"N", "V">>
  /\ state.question = <<"Should we buy or sell ", "N", "V", "?">>
  /\ state.verdict # NoneVal

(***************************************************************************)
(* Properties of the turns: sequence, targets, fact-checks, routing        *)
(***************************************************************************)
\* the node function of the given participant has returned
Called(agent) ==
  fn_out # NoneVal /\ fn_out.fn = "__call__" /\ fn_out.agent = agent

\* the speakers of a history, in order
Speakers(args) == [i \in 1..Len(args) |-> args[i].agent]

\* the turns after the Research Stage, as participants
NonResearchTurns ==
  LET nr == SelectSeq(turns, LAMBDA t : t # "research")
  IN  [i \in 1..Len(nr) |-> AgentOf(nr[i])]

SimpleTurns == <<"research", "bull_1", "bear_1", "bull_2", "bear_2", "judge">>

C32_RebuttalTarget ==
  \A agent \in {"bull", "bear"} :
    Called(agent) =>
      LET h      == fn_in.state.arguments
          other  == IF agent = "bull" THEN "bear" ELSE "bull"
          theirs == SelectSeq(h, LAMBDA a : a.agent = other)
      IN  /\ (fn_out.value.style = "opening" <=> theirs = << >>)
          /\ theirs # << >> =>
               fn_out.value.opponent = Found(theirs[Len(theirs)].content)

\* C33: whenever the Moderator runs on the full graph, the last two entries
\* of arguments are one Bull and one Bear argument, and the Moderator turn
\* leaves exactly two FactChecks.
C33_ModeratorSeesBothAdvocates ==
  graph = "full" =>
    /\ (status = "running" /\ node = "moderator") =>
         /\ Len(state.arguments) >= 2
         /\ {state.arguments[i].agent :
               i \in (Len(state.arguments) - 1)..Len(state.arguments)}
              = {"bull", "bear"}
    /\ (turns # << >> /\ turns[Len(turns)] = "moderator") =>
         Len(state.fact_checks) = 2

\* C34: a Bear turn that finds current_round >= max_rounds is followed
\* directly by the Judge, with no Moderator turn in between.
C34_BearBypassesModerator ==
  [][(TurnOf("bear") /\ state.current_round >= state.max_rounds) =>
       AgentOf(node') = "judge"]_vars

\* C35: a Moderator turn returns exactly one Argument, of speaker
\* moderator, and one FactCheck for each of the last two history entries
\* whose speaker is bull or bear, in history order, none for the other
\* entries; it makes one oracle call plus one per FactCheck, so at most
\* three; a Bull, Bear or Judge turn makes exactly one oracle call.
C35_ModeratorOutput ==
  /\ Called("moderator") =>
       LET h   == fn_in.state.arguments
           u   == fn_out.value.update
           n   == Len(h)
           adv == {i \in 1..n : i > n - 2 /\ h[i].agent \in {"bull", "bear"}}
       IN  /\ Speakers(u.arguments) = <<"moderator">>
           /\ Len(u.fact_checks) = Cardinality(adv)
           /\ Len(u.fact_checks) <= 2
           /\ \A i \in adv :
                u.fact_checks[IF i = n /\ Cardinality(adv) = 2 THEN 2 ELSE 1]
                  .agent_checked = h[i].agent
           /\ fn_out.value.calls = 1 + Len(u.fact_checks)
           /\ fn_out.value.calls <= 3
  /\ \A agent \in {"bull", "bear", "judge"} :
       Called(agent) => fn_out.value.calls = 1

C35_Witness ==
  /\ Called("moderator")
  /\ Speakers(fn_in.state.arguments) = <<"moderator", "bear", "bull">>
  /\ Len(fn_out.value.update.fact_checks) = 2
  /\ fn_out.value.update.fact_checks[1].agent_checked = "bear"
  /\ fn_out.value.calls = 3

\* C36: every completed Bull, Bear, Moderator and Judge turn appends one
\* Argument of that speaker and the Research Stage none: arguments has one
\* entry per completed non-research turn, by that turn's participant.
C36_OneArgumentPerTurn ==
  (graph \in {"full", "simple"}) =>
    Speakers(state.arguments) = NonResearchTurns

C36_Witness ==
  /\ graph = "full"
  /\ status = "done"
  /\ Speakers(state.arguments) = <<"bull", "moderator", "judge">>
  /\ turns = <<"research", "bull", "moderator", "judge">>

\* C37: on the full graph every routing function returns a key of its
\* mapping: after a Bull or Bear turn (of either graph) current_speaker is
\* moderator or judge, after a Moderator turn route_after_moderator gives
\* bull, bear or judge, and no run stops on a missing key.
C37_RoutingTargetsMapped ==
  /\ graph = "full" => status # "routing_error"
  /\ (graph \in {"full", "simple"} /\ turns # << >>) =>
       LET last == turns[Len(turns)]
       IN  /\ AgentOf(last) \in {"bull", "bear"} =>
                state.current_speaker \in {"moderator", "judge"}
           /\ (graph = "full" /\ last = "moderator") =>
                route_after_moderator(state) \in {"bull", "bear", "judge"}

C37_Witness ==
  /\ graph = "full"
  /\ Len(turns) >= 5
  /\ turns[Len(turns)] = "moderator"
  /\ status = "running"
  /\ node = "bull"

\* C38: after every streamed event the final_state rebuilt by run_debate
\* equals, key by key, the state the graph holds.
C38_FinalStateIsGraphState ==
  (graph \in {"full", "simple"}) =>
    IF steps = 0 THEN final_state = NoneVal ELSE final_state = state

C38_Witness ==
  /\ status = "done"
  /\ final_state = state
  /\ Len(final_state.arguments) >= 3
  /\ final_state.verdict # NoneVal

====
